---- MODULE Spec2Model ----
(***************************************************************************)
(* Model of the Storage Tool Facade of AzureStorageAssistant (server.py):  *)
(* nine tool handlers over one storage account and the local filesystem.   *)
(*                                                                         *)
(* Strings are sequences of one-character strings, so that lower(),        *)
(* basename() and the regular-expression search are computed, not assumed. *)
(* The storage account is a function container -> (blob name -> bytes);    *)
(* the local working directory is a function path -> bytes.  A name that   *)
(* is not in the DOMAIN does not exist.                                    *)
(***************************************************************************)
EXTENDS Integers, Sequences, FiniteSets, TLC

VARIABLES
    blob_service_client, \* TRUE iff the module-level client was constructed
    storage,             \* the storage account behind the client
    fs,                  \* regular files of the local working directory
    lastOp,              \* the invocation the dispatcher made last
    lastResult,          \* what that invocation handed back to the dispatcher
    calls,               \* storage-client methods that invocation called, in order
    repeated,            \* that invocation repeats the one before it, which met no fault
    storageChanged,      \* that invocation changed the storage account
    fsChanged,           \* that invocation changed the local filesystem
    original,            \* <<bytes>> of the local file a successful upload_blob sent just
                         \* before, when that invocation downloads the same blob; else <<>>
    procs                \* invocations in flight under concurrent dispatch

vars == <<blob_service_client, storage, fs, lastOp, lastResult, calls,
          repeated, storageChanged, fsChanged, original, procs>>

-----------------------------------------------------------------------------
(* Bounds and input sets *)

MaxPatLen == 2

MaxRuns == 2

None == <<"None">>

Containers == {<<"c", "1">>}

BlobNames == {<<"b">>, <<"a", "/", "b">>}

FilePaths == {<<"b">>, <<"a", "/", "b">>}

DirPath == <<"a">>

DataA == <<1, 1>>

DataB == <<2>>

Datas == {DataA, DataB}

Prefixes == {<<>>, <<"a">>}

ConfirmVals == {<<"n", "o">>, <<"y", "e", "s">>, <<"Y", "E", "S">>,
                <<"y", "E", "s">>, <<"y">>, <<>>}

PatChars == {"a", "b", "^", "$", "("}

RECURSIVE SeqsUpTo(_, _)
SeqsUpTo(S, n) ==
    IF n = 0 THEN {<<>>}
    ELSE LET shorter == SeqsUpTo(S, n - 1)
         IN  shorter \cup {Append(s, x) : s \in shorter, x \in S}

Patterns == SeqsUpTo(PatChars, MaxPatLen)

CorePatterns == {<<"^", "a">>, <<"b">>, <<"(">>}

-----------------------------------------------------------------------------
(* Python string and path functions used by the handlers *)

LowerChar(ch) ==
    CASE ch = "Y" -> "y"
      [] ch = "E" -> "e"
      [] ch = "S" -> "s"
      [] ch = "N" -> "n"
      [] ch = "O" -> "o"
      [] OTHER -> ch

\* faulty variant of lower: the comparison kept case-sensitive
lower_keeps_case(s) == s

lower(s) == [i \in 1..Len(s) |-> LowerChar(s[i])]

Falsy(x) == x = None \/ x = <<>>

LastSlash(p) ==
    LET idx == {i \in 1..Len(p) : p[i] = "/"}
    IN  IF idx = {} THEN 0 ELSE CHOOSE i \in idx : \A j \in idx : j <= i

basename(p) == SubSeq(p, LastSlash(p) + 1, Len(p))

\* faulty variant of exists: the local-path check left out
exists_unchecked(files, p) == TRUE

exists(files, p) == p \in DOMAIN files \/ p = DirPath

StartsWith(s, prefix) ==
    Len(prefix) <= Len(s) /\ SubSeq(s, 1, Len(prefix)) = prefix

-----------------------------------------------------------------------------
(* re.search over the pattern language {literal, ^, $}; "(" never closes *)

Malformed(pattern) == \E i \in 1..Len(pattern) : pattern[i] = "("

RECURSIVE MatchHere(_, _, _, _)
MatchHere(pattern, j, name, i) ==
    IF j > Len(pattern) THEN TRUE
    ELSE CASE pattern[j] = "^" -> i = 1 /\ MatchHere(pattern, j + 1, name, i)
           [] pattern[j] = "$" -> i = Len(name) + 1 /\ MatchHere(pattern, j + 1, name, i)
           [] OTHER -> /\ i <= Len(name)
                       /\ name[i] = pattern[j]
                       /\ MatchHere(pattern, j + 1, name, i + 1)

\* faulty variant of re_search: re.match, anchored at the start of the name
re_match(pattern, name) == MatchHere(pattern, 1, name, 1)

re_search(pattern, name) ==
    \E i \in 1..(Len(name) + 1) : MatchHere(pattern, 1, name, i)

-----------------------------------------------------------------------------
(* Values handed back to the dispatcher *)

Str(msg, detail) == [isStr |-> TRUE, msg |-> msg, detail |-> detail]

Raised(exc) == [isStr |-> FALSE, msg |-> exc, detail |-> <<>>]

NotInitialized == Str("Azure Blob Storage client is not initialized", <<>>)

Listing(names) == [count |-> Len(names), names |-> names]

Outcome(result, called, st, files) ==
    [result |-> result, calls |-> called, storage |-> st, fs |-> files]

\* faulty variant of ClientMissing: the initialization check left out
ClientMissingIgnored(client) == FALSE

ClientMissing(client) == ~client

-----------------------------------------------------------------------------
(* The storage service as the handlers use it.  Every call either returns  *)
(* a value or raises; "fault" is a failure of the service or the network.  *)

Put(f, k, v) == [x \in (DOMAIN f) \cup {k} |-> IF x = k THEN v ELSE f[x]]

Remove(f, k) == [x \in (DOMAIN f) \ {k} |-> f[x]]

Rank(ch) ==
    CASE ch = "/" -> 1
      [] ch = "1" -> 2
      [] ch = "2" -> 3
      [] ch = "a" -> 4
      [] ch = "b" -> 5
      [] OTHER -> 6

RECURSIVE LexLess(_, _)
LexLess(s, t) ==
    IF s = <<>> THEN t # <<>>
    ELSE IF t = <<>> THEN FALSE
    ELSE IF Head(s) = Head(t) THEN LexLess(Tail(s), Tail(t))
    ELSE Rank(Head(s)) < Rank(Head(t))

RECURSIVE SortNames(_)
SortNames(S) ==
    IF S = {} THEN <<>>
    ELSE LET least == CHOOSE x \in S : \A y \in S \ {x} : LexLess(x, y)
         IN  <<least>> \o SortNames(S \ {least})

Returns(value, st) == [raise |-> "none", value |-> value, storage |-> st]

Raises(exc, st) == [raise |-> exc, value |-> <<>>, storage |-> st]

sdk_list_containers(st, fault) ==
    IF fault THEN Raises("Exception", st)
    ELSE Returns(SortNames(DOMAIN st), st)

sdk_list_blobs(st, container, prefix, fault) ==
    IF fault THEN Raises("Exception", st)
    ELSE IF container \notin DOMAIN st THEN Raises("ResourceNotFoundError", st)
    ELSE Returns(SortNames({b \in DOMAIN st[container] : StartsWith(b, prefix)}), st)

HasBlob(st, container, blob) ==
    container \in DOMAIN st /\ blob \in DOMAIN st[container]

sdk_get_blob_properties(st, container, blob, fault) ==
    IF fault THEN Raises("Exception", st)
    ELSE IF ~HasBlob(st, container, blob) THEN Raises("ResourceNotFoundError", st)
    ELSE Returns([name |-> blob, size_bytes |-> Len(st[container][blob])], st)

sdk_create_container(st, container, fault) ==
    IF fault THEN Raises("Exception", st)
    ELSE IF container \in DOMAIN st THEN Raises("ResourceExistsError", st)
    ELSE Returns(<<>>, Put(st, container, <<>>))

sdk_delete_container(st, container, fault) ==
    IF fault THEN Raises("Exception", st)
    ELSE IF container \notin DOMAIN st THEN Raises("ResourceNotFoundError", st)
    ELSE Returns(<<>>, Remove(st, container))

\* faulty variant of sdk_upload_blob: appends to an existing blob
sdk_append_blob(st, container, blob, data, fault) ==
    IF fault THEN Raises("Exception", st)
    ELSE IF container \notin DOMAIN st THEN Raises("ResourceNotFoundError", st)
    ELSE Returns(<<>>, [st EXCEPT ![container] =
             Put(st[container], blob,
                 IF blob \in DOMAIN st[container] THEN st[container][blob] \o data
                 ELSE data)])

sdk_upload_blob(st, container, blob, data, fault) ==
    IF fault THEN Raises("Exception", st)
    ELSE IF container \notin DOMAIN st THEN Raises("ResourceNotFoundError", st)
    ELSE Returns(<<>>, [st EXCEPT ![container] = Put(st[container], blob, data)])

sdk_download_blob(st, container, blob, fault) ==
    IF fault THEN Raises("Exception", st)
    ELSE IF ~HasBlob(st, container, blob) THEN Raises("ResourceNotFoundError", st)
    ELSE Returns(st[container][blob], st)

sdk_delete_blob(st, container, blob, fault) ==
    IF fault THEN Raises("Exception", st)
    ELSE IF ~HasBlob(st, container, blob) THEN Raises("ResourceNotFoundError", st)
    ELSE Returns(<<>>, [st EXCEPT ![container] = Remove(st[container], blob)])

-----------------------------------------------------------------------------
(* Local file I/O *)

OpenWbFails(p) == p = DirPath

OpenRbFails(files, p) == p = DirPath \/ p \notin DOMAIN files

\* faulty variant of OpenWb: mode "r+b"-like, the old bytes are kept
OpenWithoutTruncate(files, p) ==
    IF p \in DOMAIN files THEN files ELSE Put(files, p, <<>>)

OpenWb(files, p) == Put(files, p, <<>>)

WriteAt(content, pos, data) ==
    [i \in 1..(IF Len(content) > pos + Len(data) THEN Len(content) ELSE pos + Len(data))
        |-> IF i > pos /\ i <= pos + Len(data) THEN data[i - pos] ELSE content[i]]

FileWrite(files, p, pos, data) == Put(files, p, WriteAt(files[p], pos, data))

-----------------------------------------------------------------------------
(* The handlers: what one invocation returns, calls and changes.           *)
(* client is blob_service_client, st the account, files the filesystem.    *)

ListContainersOutcome(client, st, files, fault) ==
    IF ClientMissing(client) THEN Outcome(NotInitialized, <<>>, st, files)
    ELSE LET r == sdk_list_containers(st, fault)
             called == <<"list_containers">>
         IN  IF r.raise # "none"
             THEN Outcome(Str("Error listing containers", r.raise), called, st, files)
             ELSE IF r.value # <<>>
             THEN Outcome(Str("Found containers", Listing(r.value)), called, st, files)
             ELSE Outcome(Str("No containers found in this storage account.", <<>>),
                          called, st, files)

ListBlobsOutcome(client, st, files, container, prefix, fault) ==
    IF ClientMissing(client) THEN Outcome(NotInitialized, <<>>, st, files)
    ELSE LET r == sdk_list_blobs(st, container, prefix, fault)
             called == <<"get_container_client", "list_blobs">>
         IN  IF r.raise # "none"
             THEN Outcome(Str("Error listing blobs", r.raise), called, st, files)
             ELSE IF r.value # <<>>
             THEN Outcome(Str("Found blobs", Listing(r.value)), called, st, files)
             ELSE Outcome(Str("No blobs found", prefix), called, st, files)

GetBlobInfoOutcome(client, st, files, container, blob_name, fault) ==
    IF ClientMissing(client) THEN Outcome(NotInitialized, <<>>, st, files)
    ELSE LET r == sdk_get_blob_properties(st, container, blob_name, fault)
             called == <<"get_blob_client", "get_blob_properties">>
         IN  IF r.raise = "ResourceNotFoundError"
             THEN Outcome(Str("Blob not found", <<blob_name, container>>), called, st, files)
             ELSE IF r.raise # "none"
             THEN Outcome(Str("Error getting blob info", r.raise), called, st, files)
             ELSE Outcome(Str("Blob info", r.value), called, st, files)

CreateContainerOutcome(client, st, files, container, fault) ==
    IF ClientMissing(client) THEN Outcome(NotInitialized, <<>>, st, files)
    ELSE LET r == sdk_create_container(st, container, fault)
             called == <<"create_container">>
         IN  IF r.raise = "ResourceExistsError"
             THEN Outcome(Str("Container already exists", container), called, st, files)
             ELSE IF r.raise # "none"
             THEN Outcome(Str("Error creating container", r.raise), called, st, files)
             ELSE Outcome(Str("Container created successfully", container),
                          called, r.storage, files)

DeleteContainerOutcome(client, st, files, container, confirm, fault) ==
    IF ClientMissing(client) THEN Outcome(NotInitialized, <<>>, st, files)
    ELSE IF confirm = None THEN Outcome(Raised("AttributeError"), <<>>, st, files)
    ELSE IF lower(confirm) # <<"y", "e", "s">>
    THEN Outcome(Str("To delete container, set confirm parameter to 'yes'", container),
                 <<>>, st, files)
    ELSE LET r == sdk_delete_container(st, container, fault)
             called == <<"delete_container">>
         IN  IF r.raise = "ResourceNotFoundError"
             THEN Outcome(Str("Container not found", container), called, st, files)
             ELSE IF r.raise # "none"
             THEN Outcome(Str("Error deleting container", r.raise), called, st, files)
             ELSE Outcome(Str("Container deleted successfully", container),
                          called, r.storage, files)

TargetName(local_file_path, blob_name) ==
    IF Falsy(blob_name) THEN basename(local_file_path) ELSE blob_name

UploadBlobOutcome(client, st, files, container, local_file_path, blob_name, fault) ==
    IF ClientMissing(client) THEN Outcome(NotInitialized, <<>>, st, files)
    ELSE IF local_file_path = None THEN Outcome(Raised("TypeError"), <<>>, st, files)
    ELSE IF ~exists(files, local_file_path)
    THEN Outcome(Str("Local file not found", local_file_path), <<>>, st, files)
    ELSE LET name == TargetName(local_file_path, blob_name)
         IN  IF OpenRbFails(files, local_file_path)
             THEN Outcome(Str("Error uploading file", "OSError"),
                          <<"get_container_client">>, st, files)
             ELSE LET r == sdk_upload_blob(st, container, name, files[local_file_path], fault)
                      called == <<"get_container_client", "upload_blob">>
                  IN  IF r.raise = "ResourceNotFoundError"
                      THEN Outcome(Str("Container not found", container), called, st, files)
                      ELSE IF r.raise # "none"
                      THEN Outcome(Str("Error uploading file", r.raise), called, st, files)
                      ELSE Outcome(Str("File uploaded successfully", <<container, name>>),
                                   called, r.storage, files)

Destination(blob_name, local_file_path) ==
    IF Falsy(local_file_path) THEN basename(blob_name) ELSE local_file_path

DownloadBlobOutcome(client, st, files, container, blob_name, local_file_path, fault) ==
    IF ClientMissing(client) THEN Outcome(NotInitialized, <<>>, st, files)
    ELSE LET path == Destination(blob_name, local_file_path)
         IN  IF OpenWbFails(path)
             THEN Outcome(Str("Error downloading blob", "OSError"),
                          <<"get_blob_client">>, st, files)
             ELSE LET opened == OpenWb(files, path)
                      r == sdk_download_blob(st, container, blob_name, fault)
                      called == <<"get_blob_client", "download_blob">>
                  IN  IF r.raise = "ResourceNotFoundError"
                      THEN Outcome(Str("Blob not found", <<blob_name, container>>),
                                   called, st, opened)
                      ELSE IF r.raise # "none"
                      THEN Outcome(Str("Error downloading blob", r.raise), called, st, opened)
                      ELSE Outcome(Str("Blob downloaded successfully", <<blob_name, path>>),
                                   called, st, FileWrite(opened, path, 0, r.value))

DeleteBlobOutcome(client, st, files, container, blob_name, confirm, fault) ==
    IF ClientMissing(client) THEN Outcome(NotInitialized, <<>>, st, files)
    ELSE IF confirm = None THEN Outcome(Raised("AttributeError"), <<>>, st, files)
    ELSE IF lower(confirm) # <<"y", "e", "s">>
    THEN Outcome(Str("To delete blob, set confirm parameter to 'yes'", blob_name),
                 <<>>, st, files)
    ELSE LET r == sdk_delete_blob(st, container, blob_name, fault)
             called == <<"get_blob_client", "delete_blob">>
         IN  IF r.raise = "ResourceNotFoundError"
             THEN Outcome(Str("Blob not found", <<blob_name, container>>), called, st, files)
             ELSE IF r.raise # "none"
             THEN Outcome(Str("Error deleting blob", r.raise), called, st, files)
             ELSE Outcome(Str("Blob deleted successfully", <<blob_name, container>>),
                          called, r.storage, files)

SearchBlobsOutcome(client, st, files, container, pattern, fault) ==
    IF ClientMissing(client) THEN Outcome(NotInitialized, <<>>, st, files)
    ELSE LET r == sdk_list_blobs(st, container, <<>>, fault)
             called == <<"get_container_client", "list_blobs">>
         IN  IF r.raise # "none"
             THEN Outcome(Str("Error searching blobs", r.raise), called, st, files)
             ELSE IF r.value # <<>> /\ Malformed(pattern)
             THEN Outcome(Str("Error searching blobs", "re.error"), called, st, files)
             ELSE LET Matches(blob) == re_search(pattern, blob)
                      matching_blobs == SelectSeq(r.value, Matches)
                  IN  IF matching_blobs # <<>>
                      THEN Outcome(Str("Found matching blobs", Listing(matching_blobs)),
                                   called, st, files)
                      ELSE Outcome(Str("No blobs matching pattern", pattern),
                                   called, st, files)

-----------------------------------------------------------------------------
(* One dispatcher invocation, run from call to return *)

Invocation(op, args, fault) == [op |-> op, args |-> args, fault |-> fault]

Dispatch(op, args, fault, o) ==
    /\ lastOp' = Invocation(op, args, fault)
    /\ lastResult' = o.result
    /\ calls' = o.calls
    /\ storage' = o.storage
    /\ fs' = o.fs
    /\ storageChanged' = (o.storage # storage)
    /\ fsChanged' = (o.fs # fs)
    /\ repeated' = (lastOp.op = op /\ lastOp.args = args /\ ~lastOp.fault)
    /\ original' = IF /\ op = "download_blob"
                      /\ lastOp.op = "upload_blob"
                      /\ lastResult.msg = "File uploaded successfully"
                      /\ lastResult.detail = <<args[1], args[2]>>
                   THEN <<fs[lastOp.args[2]]>>
                   ELSE <<>>
    /\ UNCHANGED <<blob_service_client, procs>>

list_containers ==
    \E fault \in BOOLEAN :
        Dispatch("list_containers", <<>>, fault,
                 ListContainersOutcome(blob_service_client, storage, fs, fault))

ListBlobs(container, prefix, fault) ==
    Dispatch("list_blobs", <<container, prefix>>, fault,
             ListBlobsOutcome(blob_service_client, storage, fs, container, prefix, fault))

list_blobs ==
    \E container \in Containers, prefix \in Prefixes, fault \in BOOLEAN :
        ListBlobs(container, prefix, fault)

get_blob_info ==
    \E container \in Containers, blob_name \in BlobNames, fault \in BOOLEAN :
        Dispatch("get_blob_info", <<container, blob_name>>, fault,
                 GetBlobInfoOutcome(blob_service_client, storage, fs,
                                    container, blob_name, fault))

create_container ==
    \E container \in Containers, fault \in BOOLEAN :
        Dispatch("create_container", <<container>>, fault,
                 CreateContainerOutcome(blob_service_client, storage, fs, container, fault))

delete_container ==
    \E container \in Containers, confirm \in ConfirmVals \cup {None}, fault \in BOOLEAN :
        Dispatch("delete_container", <<container, confirm>>, fault,
                 DeleteContainerOutcome(blob_service_client, storage, fs,
                                        container, confirm, fault))

upload_blob ==
    \E container \in Containers,
       local_file_path \in FilePaths \cup {DirPath, None},
       blob_name \in BlobNames \cup {None},
       fault \in BOOLEAN :
        Dispatch("upload_blob", <<container, local_file_path, blob_name>>, fault,
                 UploadBlobOutcome(blob_service_client, storage, fs,
                                   container, local_file_path, blob_name, fault))

download_blob ==
    \E container \in Containers,
       blob_name \in BlobNames,
       local_file_path \in FilePaths \cup {DirPath, None},
       fault \in BOOLEAN :
        Dispatch("download_blob", <<container, blob_name, local_file_path>>, fault,
                 DownloadBlobOutcome(blob_service_client, storage, fs,
                                     container, blob_name, local_file_path, fault))

delete_blob ==
    \E container \in Containers, blob_name \in BlobNames,
       confirm \in ConfirmVals \cup {None}, fault \in BOOLEAN :
        Dispatch("delete_blob", <<container, blob_name, confirm>>, fault,
                 DeleteBlobOutcome(blob_service_client, storage, fs,
                                   container, blob_name, confirm, fault))

SearchBlobs(container, pattern, fault) ==
    Dispatch("search_blobs", <<container, pattern>>, fault,
             SearchBlobsOutcome(blob_service_client, storage, fs, container, pattern, fault))

search_blobs ==
    \E container \in Containers, pattern \in CorePatterns, fault \in BOOLEAN :
        SearchBlobs(container, pattern, fault)

-----------------------------------------------------------------------------
(* Startup (server.py lines 13-21) and the sequential specification *)

InitStorages ==
    {<<>>} \cup {[c \in Containers |-> [b \in BlobNames |-> d]] : d \in Datas}

InitFiles ==
    {[p \in ps |-> DataA] : ps \in SUBSET FilePaths}

Init ==
    /\ blob_service_client \in BOOLEAN
    /\ storage \in InitStorages
    /\ fs \in InitFiles
    /\ lastOp = Invocation("none", <<>>, FALSE)
    /\ lastResult = Str("none", <<>>)
    /\ calls = <<>>
    /\ repeated = FALSE
    /\ storageChanged = FALSE
    /\ fsChanged = FALSE
    /\ original = <<>>
    /\ procs = <<>>

Next ==
    \/ list_containers
    \/ list_blobs
    \/ get_blob_info
    \/ create_container
    \/ delete_container
    \/ upload_blob
    \/ download_blob
    \/ delete_blob
    \/ search_blobs

Spec == Init /\ [][Next]_vars

-----------------------------------------------------------------------------
(* search_blobs and list_blobs over every account content and every        *)
(* pattern of up to MaxPatLen characters                                   *)

SearchContainers == Containers \cup {<<"c", "2">>}

BlobMaps == UNION {[names -> {DataA}] : names \in SUBSET BlobNames}

Accounts == UNION {[cs -> BlobMaps] : cs \in SUBSET SearchContainers}

InitSearch ==
    /\ blob_service_client = TRUE
    /\ storage \in Accounts
    /\ fs = <<>>
    /\ lastOp = Invocation("none", <<>>, FALSE)
    /\ lastResult = Str("none", <<>>)
    /\ calls = <<>>
    /\ repeated = FALSE
    /\ storageChanged = FALSE
    /\ fsChanged = FALSE
    /\ original = <<>>
    /\ procs = <<>>

ListAny ==
    \E container \in SearchContainers, prefix \in Prefixes :
        ListBlobs(container, prefix, FALSE)

SearchAny ==
    \E container \in SearchContainers, pattern \in Patterns :
        SearchBlobs(container, pattern, FALSE)

NextSearch == ListAny \/ SearchAny

SpecSearch == InitSearch /\ [][NextSearch]_vars

-----------------------------------------------------------------------------
(* Concurrent dispatch: upload_blob and download_blob invocations of two   *)
(* tasks, interleaved at their file and storage calls.  Each open() gives  *)
(* the invocation its own file object, writing from offset 0.              *)

Procs == {1, 2}

Idle ==
    [pc |-> "idle", op |-> "none", container |-> <<>>, blob |-> <<>>, path |-> <<>>,
     data |-> <<>>, before |-> <<>>, raced |-> {}, result |-> Str("none", <<>>),
     runs |-> 0]

InitConc ==
    /\ blob_service_client = TRUE
    /\ storage = [c \in Containers |-> [b \in BlobNames |->
                     IF b = <<"b">> THEN DataA ELSE DataB]]
    /\ fs \in InitFiles
    /\ lastOp = Invocation("none", <<>>, FALSE)
    /\ lastResult = Str("none", <<>>)
    /\ calls = <<>>
    /\ repeated = FALSE
    /\ storageChanged = FALSE
    /\ fsChanged = FALSE
    /\ original = <<>>
    /\ procs = [p \in Procs |-> Idle]

Returned(p) == procs[p].pc \in {"idle", "done"} /\ procs[p].runs < MaxRuns

Finish(p, result) == [procs EXCEPT ![p].pc = "done", ![p].result = result]

\* the downloads that hold path open for writing while p reads it
Writers(p, path) ==
    {<<q, procs[q].runs>> : q \in {r \in Procs \ {p} :
        procs[r].pc \in {"dl_fetch", "dl_write"} /\ procs[r].path = path}}

seqVars == <<blob_service_client, lastOp, lastResult, calls, repeated,
             storageChanged, fsChanged, original>>

\* download_blob, lines 140-144: the client check and the default path
DownloadBegin(p) ==
    \E container \in Containers, blob_name \in BlobNames,
       local_file_path \in FilePaths \cup {DirPath, None} :
        /\ Returned(p)
        /\ procs' = [procs EXCEPT ![p] =
               IF ClientMissing(blob_service_client)
               THEN [Idle EXCEPT !.pc = "done", !.op = "download_blob",
                                 !.runs = procs[p].runs + 1,
                                 !.result = NotInitialized]
               ELSE [Idle EXCEPT !.pc = "dl_open", !.op = "download_blob",
                                 !.runs = procs[p].runs + 1,
                                 !.container = container, !.blob = blob_name,
                                 !.path = Destination(blob_name, local_file_path)]]
        /\ UNCHANGED <<storage, fs, seqVars>>

\* line 149: open(local_file_path, "wb") creates or truncates the file
DownloadOpen(p) ==
    /\ procs[p].pc = "dl_open"
    /\ IF OpenWbFails(procs[p].path)
       THEN /\ procs' = Finish(p, Str("Error downloading blob", "OSError"))
            /\ fs' = fs
       ELSE /\ procs' = [procs EXCEPT ![p].pc = "dl_fetch",
                            ![p].before = IF procs[p].path \in DOMAIN fs
                                          THEN <<fs[procs[p].path]>> ELSE <<>>]
            /\ fs' = OpenWb(fs, procs[p].path)
    /\ UNCHANGED <<storage, seqVars>>

\* lines 150-151: blob_client.download_blob() and readall()
DownloadFetch(p) ==
    \E fault \in BOOLEAN :
        /\ procs[p].pc = "dl_fetch"
        /\ LET r == sdk_download_blob(storage, procs[p].container, procs[p].blob, fault)
           IN  procs' =
                 IF r.raise = "ResourceNotFoundError"
                 THEN Finish(p, Str("Blob not found", <<procs[p].blob, procs[p].container>>))
                 ELSE IF r.raise # "none"
                 THEN Finish(p, Str("Error downloading blob", r.raise))
                 ELSE [procs EXCEPT ![p].pc = "dl_write", ![p].data = r.value]
        /\ UNCHANGED <<storage, fs, seqVars>>

\* lines 151-153: file.write(...) reaches the file, the file is closed
DownloadWrite(p) ==
    /\ procs[p].pc = "dl_write"
    /\ fs' = FileWrite(fs, procs[p].path, 0, procs[p].data)
    /\ procs' = Finish(p, Str("Blob downloaded successfully",
                              <<procs[p].blob, procs[p].path>>))
    /\ UNCHANGED <<storage, seqVars>>

\* upload_blob, lines 108-115: the client check, os.path.exists, the default name
UploadBegin(p) ==
    \E container \in Containers, local_file_path \in FilePaths \cup {DirPath},
       blob_name \in BlobNames \cup {None} :
        /\ Returned(p)
        /\ procs' = [procs EXCEPT ![p] =
               IF ClientMissing(blob_service_client)
               THEN [Idle EXCEPT !.pc = "done", !.op = "upload_blob",
                                 !.runs = procs[p].runs + 1,
                                 !.result = NotInitialized]
               ELSE IF ~exists(fs, local_file_path)
               THEN [Idle EXCEPT !.pc = "done", !.op = "upload_blob",
                                 !.runs = procs[p].runs + 1,
                                 !.result = Str("Local file not found", local_file_path)]
               ELSE [Idle EXCEPT !.pc = "up_send", !.op = "upload_blob",
                                 !.runs = procs[p].runs + 1,
                                 !.container = container,
                                 !.blob = TargetName(local_file_path, blob_name),
                                 !.path = local_file_path]]
        /\ UNCHANGED <<storage, fs, seqVars>>

\* lines 123-131: open(local_file_path, "rb") and container_client.upload_blob
UploadSend(p) ==
    \E fault \in BOOLEAN :
        /\ procs[p].pc = "up_send"
        /\ IF OpenRbFails(fs, procs[p].path)
           THEN /\ procs' = Finish(p, Str("Error uploading file", "OSError"))
                /\ storage' = storage
           ELSE LET data == fs[procs[p].path]
                    r == sdk_upload_blob(storage, procs[p].container, procs[p].blob,
                                         data, fault)
                IN  /\ storage' = r.storage
                    /\ procs' =
                         IF r.raise = "ResourceNotFoundError"
                         THEN Finish(p, Str("Container not found", procs[p].container))
                         ELSE IF r.raise # "none"
                         THEN Finish(p, Str("Error uploading file", r.raise))
                         ELSE [Finish(p, Str("File uploaded successfully",
                                             <<procs[p].container, procs[p].blob>>))
                                 EXCEPT ![p].data = data,
                                        ![p].raced = Writers(p, procs[p].path)]
        /\ UNCHANGED <<fs, seqVars>>

NextConc ==
    \E p \in Procs :
        \/ DownloadBegin(p)
        \/ DownloadOpen(p)
        \/ DownloadFetch(p)
        \/ DownloadWrite(p)
        \/ UploadBegin(p)
        \/ UploadSend(p)

SpecConc == InitConc /\ [][NextConc]_vars

-----------------------------------------------------------------------------
(* Properties *)

Arg(i) == lastOp.args[i]

Called(method) == \E i \in 1..Len(calls) : calls[i] = method

\* C1: with the client unset, every tool invocation, whatever its arguments,
\* returns the fixed "not initialized" message, calls no storage-client
\* method and changes neither the storage account nor the local filesystem.
C1_UninitializedShortCircuits ==
    (~blob_service_client /\ lastOp.op # "none") =>
        /\ lastResult = NotInitialized
        /\ calls = <<>>
        /\ ~storageChanged
        /\ ~fsChanged

C1_Witness ==
    /\ ~blob_service_client
    /\ lastOp.op = "delete_blob"
    /\ Arg(3) = None
    /\ lastResult = NotInitialized

IsYes(confirm) ==
    /\ Len(confirm) = 3
    /\ confirm[1] \in {"y", "Y"}
    /\ confirm[2] \in {"e", "E"}
    /\ confirm[3] \in {"s", "S"}

\* C2: with an initialized client, delete_container and delete_blob invoke
\* the storage delete call exactly when confirm is "yes" in some letter case;
\* for every other confirm string they return the confirmation prompt, call
\* nothing and leave the storage account unchanged.
C2_DeleteNeedsConfirmation ==
    \A op \in {"delete_container", "delete_blob"} :
        (blob_service_client /\ lastOp.op = op /\ Arg(Len(lastOp.args)) # None) =>
            IF IsYes(Arg(Len(lastOp.args)))
            THEN Called(op)
            ELSE /\ calls = <<>>
                 /\ ~storageChanged
                 /\ lastResult.msg \in
                        {"To delete container, set confirm parameter to 'yes'",
                         "To delete blob, set confirm parameter to 'yes'"}

C2_Witness ==
    /\ blob_service_client
    /\ lastOp.op = "delete_blob"
    /\ Arg(3) = <<"Y", "E", "S">>
    /\ Called("delete_blob")
    /\ storageChanged

\* C3: every invocation ends by returning a string to the dispatcher; no
\* exception escapes a handler, whatever the arguments.
C3_AlwaysReturnsString == lastResult.isStr

ReportedNames(result) ==
    IF result.msg \in {"Found blobs", "Found matching blobs"}
    THEN result.detail.names ELSE <<>>

ReportedCount(result) ==
    IF result.msg \in {"Found blobs", "Found matching blobs"}
    THEN result.detail.count ELSE 0

\* a match of pattern starts at position k of name: every literal meets its
\* character, every ^ stands at the start and every $ at the end
MatchAt(pattern, name, k) ==
    \A j \in 1..Len(pattern) :
        LET pos == k + Cardinality({i \in 1..(j - 1) : pattern[i] \notin {"^", "$"}})
        IN  CASE pattern[j] = "^" -> pos = 1
              [] pattern[j] = "$" -> pos = Len(name) + 1
              [] OTHER -> pos <= Len(name) /\ name[pos] = pattern[j]

ContainsMatch(pattern, name) ==
    \E k \in 1..(Len(name) + 1) : MatchAt(pattern, name, k)

\* C4: for a well-formed pattern, search_blobs(container, pattern) reports
\* exactly the names that list_blobs(container) reports on the same account
\* and that contain a match for the pattern anywhere in the name, in the
\* same order, with a count equal to their number; it fails when the
\* listing fails.
C4_SearchIsFilteredListing ==
    (lastOp.op = "search_blobs" /\ ~lastOp.fault /\ ~Malformed(Arg(2))) =>
        LET listed == ListBlobsOutcome(blob_service_client, storage, fs,
                                       Arg(1), <<>>, FALSE).result
            Hit(name) == ContainsMatch(Arg(2), name)
            expected == SelectSeq(ReportedNames(listed), Hit)
        IN  IF listed.msg = "Error listing blobs"
            THEN lastResult.msg = "Error searching blobs"
            ELSE /\ lastResult.msg \in {"Found matching blobs",
                                        "No blobs matching pattern"}
                 /\ ReportedNames(lastResult) = expected
                 /\ ReportedCount(lastResult) = Len(expected)

C4_Witness ==
    /\ lastOp.op = "search_blobs"
    /\ Arg(2) = <<"^", "a">>
    /\ Arg(1) \in DOMAIN storage
    /\ DOMAIN storage[Arg(1)] = BlobNames
    /\ lastResult = Str("Found matching blobs", Listing(<<(<<"a", "/", "b">>)>>))

\* C5: search_blobs with a malformed pattern returns the generic failure
\* text, whatever the container holds.
C5_MalformedPatternFails ==
    (blob_service_client /\ lastOp.op = "search_blobs" /\ Malformed(Arg(2))) =>
        lastResult.msg = "Error searching blobs"

\* C6: with an initialized client, upload_blob of a local path that does not
\* exist returns the missing-local-file message naming the path, calls no
\* storage-client method and changes nothing, whether or not the container
\* exists.
C6_MissingLocalFile ==
    (/\ blob_service_client
     /\ lastOp.op = "upload_blob"
     /\ Arg(2) # None
     /\ Arg(2) \notin (DOMAIN fs) \cup {DirPath}) =>
        /\ lastResult = Str("Local file not found", Arg(2))
        /\ calls = <<>>
        /\ ~storageChanged
        /\ ~fsChanged

C6_Witness ==
    /\ blob_service_client
    /\ lastOp.op = "upload_blob"
    /\ Arg(1) \in DOMAIN storage
    /\ Arg(2) \in FilePaths \ DOMAIN fs
    /\ lastResult = Str("Local file not found", Arg(2))

\* C7: a download_blob(c, f, outPath) that directly follows a successful
\* upload_blob(c, localPath, f), meets no service fault and writes to a file
\* path, succeeds and leaves at its destination exactly the bytes of the
\* local file that was uploaded.
C7_RoundTrip ==
    (/\ lastOp.op = "download_blob"
     /\ original # <<>>
     /\ ~lastOp.fault
     /\ Destination(Arg(2), Arg(3)) \in FilePaths) =>
        /\ lastResult.msg = "Blob downloaded successfully"
        /\ Destination(Arg(2), Arg(3)) \in DOMAIN fs
        /\ fs[Destination(Arg(2), Arg(3))] = original[1]

C7_Witness ==
    /\ lastOp.op = "download_blob"
    /\ original = <<DataB>>
    /\ Arg(3) = <<"a", "/", "b">>
    /\ lastResult.msg = "Blob downloaded successfully"
    /\ fs[<<"a", "/", "b">>] = DataB

\* an upload that read path while download q held it open sent either the
\* file as it was before q opened it or the blob q wrote
CleanRead(p) ==
    \A w \in procs[p].raced :
        LET q == w[1]
        IN  (/\ procs[q].runs = w[2]
             /\ procs[q].pc = "done"
             /\ procs[q].result.msg = "Blob downloaded successfully") =>
                \/ procs[p].data = procs[q].data
                \/ procs[q].before = <<procs[p].data>>

\* two completed downloads to one path leave the content one of them fetched
DownloadsIntact ==
    \A p \in Procs :
        (procs[p].pc = "done" /\ procs[p].op = "download_blob"
         /\ procs[p].result.msg = "Blob downloaded successfully") =>
            \A q \in Procs \ {p} :
                (procs[q].pc = "done" /\ procs[q].op = "download_blob"
                 /\ procs[q].result.msg = "Blob downloaded successfully"
                 /\ procs[q].path = procs[p].path) =>
                    fs[procs[p].path] \in {procs[p].data, procs[q].data}

\* every completed upload sent a complete content of its file
UploadsIntact ==
    \A p \in Procs :
        (procs[p].pc = "done" /\ procs[p].op = "upload_blob"
         /\ procs[p].result.msg = "File uploaded successfully") => CleanRead(p)

\* C8: under concurrent dispatch no invocation observes or corrupts another's
\* intermediate state: two downloads to one path leave one blob's complete
\* content, and an upload reading a path that a download is writing sends a
\* complete content of that file.
C8_NoInterference == DownloadsIntact /\ UploadsIntact

\* C9: an invocation that repeats the one before it, which met no service
\* fault, leaves the storage account as the first one left it.
C9_RepeatChangesNothing == repeated => ~storageChanged

C9_Witness ==
    /\ repeated
    /\ lastOp.op = "upload_blob"
    /\ lastResult.msg = "File uploaded successfully"
    /\ ~lastOp.fault

\* C10: a download_blob that returns the blob-not-found message or the
\* generic failure text leaves the local filesystem unchanged.
C10_FailedDownloadKeepsFiles ==
    (lastOp.op = "download_blob"
     /\ lastResult.msg \in {"Blob not found", "Error downloading blob"}) => ~fsChanged

====
